---- MODULE Spec2Model ----
(***************************************************************************)
(* Waypoint-progress tracker and sparse path-following reward of the maze  *)
(* task (orbit/maze/tasks/maze/mdp/rewards.py).                            *)
(*                                                                         *)
(* Lengths are in millimetres (0.001 of the simulator's length unit), so   *)
(* that both proximity thresholds of the source are whole numbers and the  *)
(* strict "<" of the proximity test can be met exactly on its boundary.    *)
(* A Python value that may be None is a sequence of length 0 (None) or 1.  *)
(***************************************************************************)
EXTENDS Integers, FiniteSets, Sequences, TLC

\* ------------------------------------------------------------------ bounds
\* Largest number of parallel instances (env.num_envs) explored.
MaxEnvs == 2

\* ------------------------------------------------------- program constants
\* The index every instance starts from: 2 * torch.ones(...).
StartIdx == 2
\* distance_from_target of path_point_target, 0.005, in millimetres.
PathThreshold == 5
\* distance_from_target of root_xy_sparse_target, 0.001, in millimetres.
SparseThreshold == 1
\* env_spacing of the scene, 0.5, in millimetres.
EnvSpacing == 500

\* ------------------------------------------------------- optional values
None == <<>>
Some(x) == <<x>>
IsNone(o) == o = <<>>
Val(o) == o[1]

\* ------------------------------------------------------------- geometry
Add(p, q) == <<p[1] + q[1], p[2] + q[2]>>
Sub(p, q) == <<p[1] - q[1], p[2] - q[2]>>
Abs(n) == IF n < 0 THEN -n ELSE n
NormSq(d) == d[1] * d[1] + d[2] * d[2]

\* (mutant of Within: the boundary counted as reached)
WithinMutLe(a, b, thr) == NormSq(Sub(a, b)) <= thr * thr
\* torch.norm(a - b, dim=1) < distance_from_target, on the first two
\* coordinates: both sides are non-negative, so the squares compare alike.
Within(a, b, thr) == NormSq(Sub(a, b)) < thr * thr

\* The path table (globals.maze_path): the ordered 2-D waypoints, in the
\* instance's own frame.
PathTable == << <<0, 0>>, <<10, 10>>, <<20, 0>>, <<30, 10>>, <<40, 0>> >>
PathLen == Len(PathTable)
\* maze_path[k, :], rows counted from 0 as the tensor's are.
maze_path == [k \in 0..(PathLen - 1) |-> PathTable[k + 1]]

\* env.scene.env_origins: one world-frame origin per instance.
env_origins(i) == <<i * EnvSpacing, 0>>

MarkerNames == {"target1", "target2", "target3"}

\* Where the ball may be relative to target1 when a tick reads it: on it, or
\* exactly 5 mm away (3-4-5), which the strict "<" does not count as reached.
PathOffsets == {<<0, 0>>, <<3, 4>>}

\* The caps a task may configure: None (the default) or an index of the table.
IdxMaxValues == {None} \cup {Some(m) : m \in 0..(PathLen - 1)}

\* The marker layouts the scene may start from: target1..target3 on three
\* consecutive waypoints, the first of them at waypoint w.
InitWindows == {0, StartIdx}

VARIABLES
    num_envs,   \* env.num_envs
    idx_max,    \* the idx_max the task passes to path_point_target
    path_idx,   \* the module global path_idx: None or one index per instance
    target1,    \* root pose of scene entity target1, per instance
    target2,    \* root pose of scene entity target2, per instance
    target3,    \* root pose of scene entity target3, per instance
    op,         \* the adapter the host called last
    args,       \* the inputs of that call when it was a reward adapter's, else <<>>
    ret,        \* what that call returned: None when it raised or returns nothing
    err         \* the exception that call raised, "none" when it returned

vars == <<num_envs, idx_max, path_idx, target1, target2, target3, op, args, ret, err>>

Envs == 0..(num_envs - 1)

\* A marker entity's pose: world xy, and the rest of the 7-vector (height and
\* orientation), which no adapter computes and which is carried as a tag.
InitPose(name, k, i) == [xy |-> Add(maze_path[k], env_origins(i)), zq |-> name]

\* The process before the host's first call, for a task whose cap is one of
\* caps and whose scene starts from one of the layouts windows.
InitWith(caps, windows) ==
    /\ num_envs \in 0..MaxEnvs
    /\ idx_max \in caps
    /\ path_idx = None
    /\ \E w \in windows :
        /\ target1 = [i \in Envs |-> InitPose("target1", w, i)]
        /\ target2 = [i \in Envs |-> InitPose("target2", w + 1, i)]
        /\ target3 = [i \in Envs |-> InitPose("target3", w + 2, i)]
    /\ op = "init"
    /\ args = <<>>
    /\ ret = None
    /\ err = "none"

Init == InitWith(IdxMaxValues, InitWindows)

\* ------------------------------------------------------- progress state
\* (mutant of LazyInit: the array built anew on every call)
LazyInitMutAlways(p) == [i \in Envs |-> StartIdx]
\* if path_idx is None: path_idx = 2 * torch.ones(env.num_envs, dtype=int)
LazyInit(p) == IF IsNone(p) THEN [i \in Envs |-> StartIdx] ELSE Val(p)

\* path_idx[target_reached_ids] += 1
Increment(p, ids) == [i \in DOMAIN p |-> IF i \in ids THEN p[i] + 1 ELSE p[i]]

\* (mutant of Clamp: the cap not applied)
ClampMutOff(p, m) == p
\* path_idx[path_idx >= idx_max] = idx_max, over the whole array
Clamp(p, m) == [i \in DOMAIN p |-> IF p[i] >= m THEN m ELSE p[i]]

\* (mutant of ResetIdx: the whole array reset)
ResetIdxMutAll(p, env_ids) == [i \in DOMAIN p |-> StartIdx]
\* path_idx[env_ids] = 2 * torch.ones(len(env_ids), dtype=int)
ResetIdx(p, env_ids) == [i \in DOMAIN p |-> IF i \in env_ids THEN StartIdx ELSE p[i]]

\* xy_sparse_reward of path_point_target: the ball against target1, both in
\* the instance's own frame.
ReachedMask(sphere) ==
    [i \in Envs |-> Within(Sub(sphere[i], env_origins(i)),
                           Sub(target1[i].xy, env_origins(i)), PathThreshold)]

\* The ball positions a tick may read: per instance, an offset from anchor[i].
SphereNear(anchor, offsets) ==
    {[i \in Envs |-> Add(anchor[i], o[i])] : o \in [Envs -> offsets]}

\* (mutant of NextPose: the waypoint after the updated index, held at the
\* table's end)
NextPoseMutAhead(pose, i, k) ==
    [pose EXCEPT !.xy = Add(maze_path[IF k + 1 < PathLen THEN k + 1 ELSE PathLen - 1],
                            env_origins(i))]
\* (mutant of NextPose: a pose built from the waypoint alone, target3's
\* height and orientation dropped)
NextPoseMutFresh(pose, i, k) == [xy |-> Add(maze_path[k], env_origins(i)), zq |-> "fresh"]
\* targetNextto3: target3's pose with its xy replaced by the waypoint at the
\* instance's updated index, moved to the instance's origin.
NextPose(pose, i, k) == [pose EXCEPT !.xy = Add(maze_path[k], env_origins(i))]

path_point_target(sphere) ==
    LET p0 == LazyInit(path_idx)
        mask == ReachedMask(sphere)
        ids == {i \in Envs : mask[i]}
        p1 == Increment(p0, ids)
    IN  /\ err = "none"
        /\ op' = "path_point_target"
        /\ args' = <<>>
        /\ UNCHANGED <<num_envs, idx_max>>
        /\ IF ids = {}
           THEN \* numel() == 0: return the all-false mask
                /\ path_idx' = Some(p0)
                /\ UNCHANGED <<target1, target2, target3>>
                /\ ret' = Some(mask)
                /\ err' = "none"
           ELSE IF IsNone(idx_max)
           THEN \* path_idx >= None raises after the in-place increment
                /\ path_idx' = Some(p1)
                /\ UNCHANGED <<target1, target2, target3>>
                /\ ret' = None
                /\ err' = "TypeError"
           ELSE LET p2 == Clamp(p1, Val(idx_max)) IN
                IF \E i \in ids : p2[i] \notin DOMAIN maze_path
                THEN \* maze_path[updated_path_idx, :] out of range
                     /\ path_idx' = Some(p2)
                     /\ UNCHANGED <<target1, target2, target3>>
                     /\ ret' = None
                     /\ err' = "IndexError"
                ELSE /\ path_idx' = Some(p2)
                     /\ target1' = [i \in Envs |-> IF i \in ids THEN target2[i] ELSE target1[i]]
                     /\ target2' = [i \in Envs |-> IF i \in ids THEN target3[i] ELSE target2[i]]
                     /\ target3' = [i \in Envs |->
                            IF i \in ids THEN NextPose(target3[i], i, p2[i])
                            ELSE target3[i]]
                     /\ ret' = Some(mask)
                     /\ err' = "none"

PathPointTarget == \E sphere \in SphereNear([i \in Envs |-> target1[i].xy], PathOffsets) :
    path_point_target(sphere)

reset_maze_path_idx(env_ids) ==
    /\ err = "none"
    /\ op' = "reset_maze_path_idx"
    /\ args' = <<>>
    /\ path_idx' = Some(ResetIdx(LazyInit(path_idx), env_ids))
    /\ ret' = None
    /\ err' = "none"
    /\ UNCHANGED <<num_envs, idx_max, target1, target2, target3>>

ResetMazePathIdx == \E env_ids \in SUBSET Envs : reset_maze_path_idx(env_ids)

Next ==
    \/ PathPointTarget
    \/ ResetMazePathIdx

Spec == Init /\ [][Next]_vars

\* The host evaluates path_point_target at every simulation step for as long
\* as the process runs, so a tick that can be taken is eventually taken.
SpecLive == Init /\ [][Next]_vars /\ WF_vars(PathPointTarget)

\* ------------------------------------------------------- reward adapters
\* A target_cfg is a scene entity (SceneEntityCfg) or a dictionary of floats.
Entity(name) == [kind |-> "entity", name |-> name]
Dict(d) == [kind |-> "dict", d |-> d]

\* The target configurations a task may pass: the current target marker, and
\* dictionaries with both, one or none of the keys "x" and "y".
TargetCfgs ==
    {Entity("target1"), Dict([x |-> 10, y |-> 10]), Dict([x |-> 20]),
     Dict([y |-> 10]), Dict(<<>>)}

\* The stage a sparse reward term may be gated on: None (the default) or an index.
StageIds == {None, Some(StartIdx), Some(StartIdx + 1)}

\* The sets of instances whose ball is on the target when a reward adapter
\* reads it: none, the first, all.
NearSets == {{}, Envs \cap {0}, Envs}

\* dict.get(key, 0.0)
Get(d, key) == IF key \in DOMAIN d THEN d[key] ELSE 0

\* env.scene[name].data.root_pos_w, first two coordinates
RootPosW(name) ==
    [i \in Envs |-> CASE name = "target1" -> target1[i].xy
                      [] name = "target2" -> target2[i].xy
                      [] OTHER -> target3[i].xy]

\* target_pos of root_xy_sparse_target, as each instance's row sees it: the
\* entity's position in the instance's frame, or the one row built from the
\* dictionary and broadcast to every instance.
SparseTargetPos(target_cfg) ==
    IF target_cfg.kind = "entity"
    THEN [i \in Envs |-> Sub(RootPosW(target_cfg.name)[i], env_origins(i))]
    ELSE [i \in Envs |-> <<Get(target_cfg.d, "x"), Get(target_cfg.d, "y")>>]

\* The world position of a target, to place the ball by.
TargetWorld(target_cfg) ==
    [i \in Envs |-> Add(SparseTargetPos(target_cfg)[i], env_origins(i))]

\* The ball positions a reward adapter may read: on the target in the
\* instances of one of NearSets, and off it by far in the others.
RewardSpheres(target_cfg, far) ==
    {[i \in Envs |-> Add(TargetWorld(target_cfg)[i], IF i \in R THEN <<0, 0>> ELSE far)] :
        R \in NearSets}

\* (mutant of ReachedGoal: the stage gate left out)
ReachedGoalMutTrue(p, idx) == [i \in DOMAIN p |-> TRUE]
\* reached_goal = idx * torch.ones_like(path_idx) == path_idx
ReachedGoal(p, idx) == [i \in DOMAIN p |-> idx = p[i]]

root_xy_sparse_target(sphere, target_cfg, idx) ==
    LET target_pos == SparseTargetPos(target_cfg)
        root_pos == [i \in Envs |-> Sub(sphere[i], env_origins(i))]
        near == [i \in Envs |-> Within(root_pos[i], target_pos[i], SparseThreshold)]
    IN  /\ err = "none"
        /\ op' = "root_xy_sparse_target"
        /\ args' = [sphere |-> sphere, target_cfg |-> target_cfg, idx |-> idx]
        /\ UNCHANGED <<num_envs, idx_max, path_idx, target1, target2, target3>>
        /\ IF IsNone(path_idx) \/ IsNone(idx)
           THEN \* torch.ones_like(None), or None * tensor
                /\ ret' = None
                /\ err' = "TypeError"
           ELSE /\ ret' = Some([i \in Envs |->
                            near[i] /\ ReachedGoal(Val(path_idx), Val(idx))[i]])
                /\ err' = "none"

RootXYSparseTarget == \E target_cfg \in TargetCfgs, idx \in StageIds :
    \* off the target: exactly 1 mm, which the strict "<" does not count as reached
    \E sphere \in RewardSpheres(target_cfg, <<1, 0>>) :
        root_xy_sparse_target(sphere, target_cfg, idx)

\* floor of the square root
ISqrt(n) == CHOOSE r \in 0..n : r * r <= n /\ n < (r + 1) * (r + 1)

\* torch.norm(d, p=LNorm), to the millimetre
Norm(d, LNorm) == IF LNorm = 1 THEN Abs(d[1]) + Abs(d[2]) ELSE ISqrt(NormSq(d))

\* The norms a task may configure: 1 (the maze task's) and 2 (the default).
LNorms == {1, 2}

root_xypos_target(sphere, target_cfg, LNorm) ==
    /\ err = "none"
    /\ op' = "root_xypos_target"
    /\ args' = [sphere |-> sphere, target_cfg |-> target_cfg, LNorm |-> LNorm]
    /\ UNCHANGED <<num_envs, idx_max, path_idx, target1, target2, target3>>
    /\ IF target_cfg.kind = "entity"
       THEN LET target_pos == [i \in Envs |->
                    Sub(RootPosW(target_cfg.name)[i], env_origins(i))]
                root_pos == [i \in Envs |-> Sub(sphere[i], env_origins(i))]
            IN  /\ ret' = Some([i \in Envs |-> Norm(Sub(root_pos[i], target_pos[i]), LNorm)])
                /\ err' = "none"
       ELSE \* target.get(...): the local name target was never assigned
            /\ ret' = None
            /\ err' = "UnboundLocalError"

RootXYPosTarget == \E target_cfg \in TargetCfgs, LNorm \in LNorms :
    \* off the target: 3 mm and 4 mm
    \E sphere \in RewardSpheres(target_cfg, <<3, 4>>) :
        root_xypos_target(sphere, target_cfg, LNorm)

\* The host calling any of the four adapters, in any order.
NextRewards ==
    \/ PathPointTarget
    \/ ResetMazePathIdx
    \/ RootXYSparseTarget
    \/ RootXYPosTarget

\* The cap of a task that tracks the path one waypoint past the start index.
RewardCaps == {Some(StartIdx + 1)}

InitRewards == InitWith(RewardCaps, {StartIdx})

SpecRewards == InitRewards /\ [][NextRewards]_vars

\* ================================================================ claims
Min(a, b) == IF a < b THEN a ELSE b

\* Instance i's index as a call finds it: the start index while the progress
\* state is still absent.
IndexBefore(i) == IF IsNone(path_idx) THEN StartIdx ELSE Val(path_idx)[i]

\* The maximum index: the configured cap, or the table's last index without one.
MaxIndex == IF IsNone(idx_max) THEN PathLen - 1 ELSE Val(idx_max)

\* The ball positions a tick of path_point_target may read.
TickSpheres == SphereNear([i \in Envs |-> target1[i].xy], PathOffsets)

\* Instance i's ball is within the proximity threshold of target1.
InRange(sphere, i) ==
    LET d == Sub(sphere[i], target1[i].xy)
    IN  d[1] * d[1] + d[2] * d[2] < PathThreshold * PathThreshold

\* C1 (as claimed): one tick of path_point_target sets index_i to
\* min(index_i + 1, max_index) when instance i is within the threshold of
\* target1 and leaves index_i unchanged when it is not, whatever the other
\* instances do, for every configured max_index.
C1_SingleStepAdvance ==
    [][\A sphere \in TickSpheres :
        (op' = "path_point_target" /\ path_point_target(sphere)) =>
            \A i \in Envs :
                Val(path_idx')[i] =
                    IF InRange(sphere, i) THEN Min(IndexBefore(i) + 1, MaxIndex)
                    ELSE IndexBefore(i)]_vars

\* C2 (as claimed): once the progress state exists, every instance's index
\* lies in 0..max_index, also right after initialization and after a reset.
C2_ClampInvariant ==
    ~IsNone(path_idx) =>
        \A i \in Envs : 0 <= Val(path_idx)[i] /\ Val(path_idx)[i] <= MaxIndex

\* C3 (as claimed): no tick of path_point_target lowers an index; an index
\* is lowered only by the reset hook called with a subset that holds it.
C3_Monotonic ==
    [][\A i \in Envs :
        Val(path_idx')[i] < IndexBefore(i) =>
            \E env_ids \in SUBSET Envs : i \in env_ids /\ reset_maze_path_idx(env_ids)]_vars

\* C4: reset_maze_path_idx(S) sets index_i to the start index for i in S and
\* leaves index_j as it was for j not in S; with S empty an existing
\* progress state is unchanged; and a further reset of any subset T gives
\* what one reset of S union T gives.
C4_ResetScoping ==
    [][\A S \in SUBSET Envs :
        (op' = "reset_maze_path_idx" /\ reset_maze_path_idx(S)) =>
            /\ \A i \in S : Val(path_idx')[i] = StartIdx
            /\ \A j \in Envs \ S : Val(path_idx')[j] = IndexBefore(j)
            /\ (S = {} /\ ~IsNone(path_idx)) => path_idx' = path_idx
            /\ \A T \in SUBSET Envs :
                ResetIdx(Val(path_idx'), T) =
                    [i \in Envs |-> IF i \in S \cup T THEN StartIdx ELSE IndexBefore(i)]]_vars

\* C4's case: the reset hook has run and left one instance at the start
\* index beside another that keeps an advanced index.
C4_Witness ==
    /\ op = "reset_maze_path_idx"
    /\ \E i, j \in Envs :
        Val(path_idx)[i] = StartIdx /\ Val(path_idx)[j] > StartIdx

\* The tick was a reposition for instance i: it returned with i reached.
Repositioned(i) ==
    /\ op = "path_point_target"
    /\ err = "none"
    /\ Val(ret)[i]

WaypointAt(k, i) == Add(maze_path[k], env_origins(i))

\* C5 (as claimed, for a task whose cap is the table's last index): after a
\* reposition target1 is at PathTable[index], and target2 and target3 at the
\* next two entries, held at the maximum index.
C5_WindowAsClaimed ==
    \A i \in Envs :
        (idx_max = Some(PathLen - 1) /\ Repositioned(i)) =>
            /\ target1[i].xy = WaypointAt(Val(path_idx)[i], i)
            /\ target2[i].xy = WaypointAt(Min(Val(path_idx)[i] + 1, MaxIndex), i)
            /\ target3[i].xy = WaypointAt(Min(Val(path_idx)[i] + 2, MaxIndex), i)

\* C5 (amended): after a reposition it is target3 that is at
\* PathTable[index] plus the instance's origin, index being the post-advance
\* index; target1 and target2 hold the poses target2 and target3 had before
\* the tick.
C5_WindowTail ==
    [][\A sphere \in TickSpheres :
        (op' = "path_point_target" /\ err' = "none" /\ path_point_target(sphere)) =>
            \A i \in Envs :
                InRange(sphere, i) =>
                    /\ target3'[i].xy = WaypointAt(Val(path_idx')[i], i)
                    /\ target1'[i] = target2[i]
                    /\ target2'[i] = target3[i]]_vars

\* C5's case: a reposition has advanced an instance past the start index.
C5_Witness ==
    \E i \in Envs : Repositioned(i) /\ Val(path_idx)[i] > StartIdx

\* C6: a tick in which no instance is within the threshold (also with no
\* instance at all) returns the all-false mask without error and changes
\* neither an existing progress state nor any marker pose.
C6_NoOpTick ==
    [][\A sphere \in TickSpheres :
        (/\ op' = "path_point_target"
         /\ \A i \in Envs : ~InRange(sphere, i)
         /\ path_point_target(sphere)) =>
            /\ ret' = Some([i \in Envs |-> FALSE])
            /\ err' = "none"
            /\ ~IsNone(path_idx) => path_idx' = path_idx
            /\ UNCHANGED <<target1, target2, target3>>]_vars

\* C6's case: a tick returned the all-false mask for instances of which one
\* had advanced before.
C6_Witness ==
    /\ op = "path_point_target"
    /\ err = "none"
    /\ num_envs > 0
    /\ ret = Some([i \in Envs |-> FALSE])
    /\ \E i \in Envs : Val(path_idx)[i] > StartIdx

\* C8 (as claimed): with the cap at the table's last index, and with no cap
\* configured, a tick never raises: the index stays inside the table, and an
\* instance reached at the maximum keeps it with target3 on the last waypoint.
C8_Saturating ==
    (op = "path_point_target" /\ idx_max \in {None, Some(PathLen - 1)}) =>
        /\ err = "none"
        /\ \A i \in Envs :
            /\ Val(path_idx)[i] \in DOMAIN maze_path
            /\ (Val(ret)[i] /\ Val(path_idx)[i] = MaxIndex) =>
                    target3[i].xy = WaypointAt(PathLen - 1, i)

\* C7 (as claimed, for a scene with an instance and a sparse reward given
\* its stage): whichever of path_point_target, reset_maze_path_idx and
\* root_xy_sparse_target is called while the progress state is absent, the
\* call raises nothing and leaves the progress state in place, at the start
\* index for every instance the call did not advance.
C7_LazyInitEverywhere ==
    [][(/\ IsNone(path_idx)
        /\ num_envs > 0
        /\ op' \in {"path_point_target", "reset_maze_path_idx", "root_xy_sparse_target"}
        /\ op' = "root_xy_sparse_target" => ~IsNone(args'.idx)) =>
            /\ err' = "none"
            /\ ~IsNone(path_idx')
            /\ \A i \in Envs :
                \/ Val(path_idx')[i] = StartIdx
                \/ op' = "path_point_target" /\ Val(ret')[i]]_vars

\* The coordinate a dictionary target gives for key, 0 when the key is missing.
Coord(d, key) == IF key \in DOMAIN d THEN d[key] ELSE 0

\* Instance i's ball is within the sparse reward's threshold of the target:
\* of the entity's position, or of the point the dictionary gives.
NearTarget(sphere, target_cfg, i) ==
    LET t == IF target_cfg.kind = "entity"
             THEN RootPosW(target_cfg.name)[i]
             ELSE Add(<<Coord(target_cfg.d, "x"), Coord(target_cfg.d, "y")>>, env_origins(i))
        d == Sub(sphere[i], t)
    IN  d[1] * d[1] + d[2] * d[2] < SparseThreshold * SparseThreshold

\* C9: root_xy_sparse_target returns true for instance i exactly when the
\* ball is within the threshold of the target and instance i's index, as the
\* call finds it, equals the stage idx it was given; and it changes neither
\* the progress state nor a marker pose.
C9_StageGate ==
    [][op' = "root_xy_sparse_target" =>
        /\ UNCHANGED <<path_idx, target1, target2, target3>>
        /\ \A i \in Envs :
            (err' = "none" /\ Val(ret')[i]) <=>
                /\ NearTarget(args'.sphere, args'.target_cfg, i)
                /\ ~IsNone(path_idx)
                /\ ~IsNone(args'.idx)
                /\ Val(path_idx)[i] = Val(args'.idx)]_vars

\* C9's case: a sparse reward call found the ball on the target in every
\* instance and returned true for one and false for another, whose index is
\* at another stage.
C9_Witness ==
    /\ op = "root_xy_sparse_target"
    /\ err = "none"
    /\ \A i \in Envs : NearTarget(args.sphere, args.target_cfg, i)
    /\ \E i, j \in Envs :
        /\ Val(ret)[i]
        /\ ~Val(ret)[j]
        /\ Val(path_idx)[i] # Val(path_idx)[j]

\* C10 (as claimed, for a scene with an instance): with a dictionary target,
\* whichever of the keys "x" and "y" it holds, root_xypos_target returns
\* without error, and so does root_xy_sparse_target (called with a stage, on
\* an existing progress state), a missing coordinate counting as 0.
C10_DictFallback ==
    [][(/\ op' \in {"root_xypos_target", "root_xy_sparse_target"}
        /\ num_envs > 0
        /\ args'.target_cfg.kind = "dict"
        /\ op' = "root_xy_sparse_target" => (~IsNone(path_idx) /\ ~IsNone(args'.idx))) =>
            /\ err' = "none"
            /\ op' = "root_xy_sparse_target" =>
                \A i \in Envs :
                    Val(ret')[i] => NearTarget(args'.sphere, args'.target_cfg, i)]_vars

\* C11: the progress state, once created, is never absent again, and no
\* later tick or reset moves an instance's index to the start index from
\* another value unless it is the reset hook called with a subset that holds
\* the instance.
C11_NoWholesaleReinit ==
    [][~IsNone(path_idx) =>
        /\ ~IsNone(path_idx')
        /\ \A i \in Envs :
            (Val(path_idx')[i] = StartIdx /\ Val(path_idx)[i] # StartIdx) =>
                /\ op' = "reset_maze_path_idx"
                /\ \E S \in SUBSET Envs : i \in S /\ reset_maze_path_idx(S)]_vars

\* C11's case: a tick on an existing progress state advanced one instance
\* and left another, not reached, at the advanced index it had.
C11_Witness ==
    /\ op = "path_point_target"
    /\ err = "none"
    /\ \E i, j \in Envs :
        /\ Val(ret)[i] /\ Val(path_idx)[i] > StartIdx + 1
        /\ ~Val(ret)[j] /\ Val(path_idx)[j] = StartIdx + 1

\* C12: in a tick of path_point_target that returns, every reached instance
\* gets as target1 its pre-tick target2 pose, as target2 its pre-tick
\* target3 pose, and as target3 its pre-tick target3 pose with the position
\* replaced by PathTable[post-advance index] plus the instance's origin;
\* every instance not reached keeps its three marker poses.
C12_MarkerShift ==
    [][\A sphere \in TickSpheres :
        (op' = "path_point_target" /\ err' = "none" /\ path_point_target(sphere)) =>
            \A i \in Envs :
                IF InRange(sphere, i)
                THEN /\ target1'[i] = target2[i]
                     /\ target2'[i] = target3[i]
                     /\ target3'[i].xy = WaypointAt(Val(path_idx')[i], i)
                     /\ target3'[i].zq = target3[i].zq
                ELSE /\ target1'[i] = target1[i]
                     /\ target2'[i] = target2[i]
                     /\ target3'[i] = target3[i]]_vars

\* C12's case: a tick shifted the markers of an instance for the second time
\* (its target1 now holds a pose that target3 had) beside an instance not
\* reached, whose markers are where the scene put them.
C12_Witness ==
    /\ op = "path_point_target"
    /\ err = "none"
    /\ \E i, j \in Envs :
        /\ Val(ret)[i]
        /\ target1[i].zq = "target3"
        /\ target3[i].xy = WaypointAt(Val(path_idx)[i], i)
        /\ target3[i].xy # target2[i].xy
        /\ ~Val(ret)[j]
        /\ target1[j].zq = "target1"

\* Instance i's markers are on one of the windows the scene starts from.
OnStartWindow(t1, t2, t3, i) ==
    \E w \in InitWindows :
        /\ t1[i].xy = WaypointAt(w, i)
        /\ t2[i].xy = WaypointAt(w + 1, i)
        /\ t3[i].xy = WaypointAt(w + 2, i)

\* C13 (as claimed, for a task whose cap is the table's last index): when
\* the reset hook restarts a subset S, every instance of S has afterwards
\* the start index and its three markers back on a window of the start,
\* not on the window the previous episode reached.
C13_EpisodeScopedMarkers ==
    [][\A S \in SUBSET Envs :
        (/\ op' = "reset_maze_path_idx"
         /\ idx_max = Some(PathLen - 1)
         /\ reset_maze_path_idx(S)) =>
            \A i \in S :
                /\ Val(path_idx')[i] = StartIdx
                /\ OnStartWindow(target1', target2', target3', i)]_vars

\* A tick in which instance i's ball is within the threshold of target1.
ReachedTick(i) ==
    /\ i \in Envs
    /\ op' = "path_point_target"
    /\ \E sphere \in TickSpheres : InRange(sphere, i) /\ path_point_target(sphere)

\* A call of the reset hook with a subset that holds instance i.
ResetOf(i) ==
    /\ op' = "reset_maze_path_idx"
    /\ \E S \in SUBSET Envs : i \in S /\ reset_maze_path_idx(S)

\* Instance i's index is at the configured maximum.
AtMax(i) ==
    /\ i \in Envs
    /\ ~IsNone(path_idx)
    /\ ~IsNone(idx_max)
    /\ Val(path_idx)[i] = Val(idx_max)

\* C14: an instance whose index is at max_index keeps it in every tick; and
\* when from some point on the instance is not reset and it is within the
\* threshold of target1 in infinitely many ticks, its index reaches
\* max_index and stays there.
C14_Terminal ==
    /\ [][\A i \in Envs :
            (AtMax(i) /\ op' = "path_point_target") =>
                Val(path_idx')[i] = Val(idx_max)]_vars
    /\ \A i \in 0..(MaxEnvs - 1) :
            (<>[][~ResetOf(i)]_vars /\ []<><<ReachedTick(i)>>_vars) => <>[]AtMax(i)

\* C14's case: an instance at a maximum past the start index was reached
\* again and held: target3 was given the waypoint it already had, which
\* target2 now shows as well.
C14_Witness ==
    \E i \in Envs :
        /\ Repositioned(i)
        /\ AtMax(i)
        /\ Val(idx_max) > StartIdx
        /\ target3[i].xy = WaypointAt(Val(idx_max), i)
        /\ target2[i].xy = target3[i].xy

====
